---------------------------- MODULE Spec2Model ----------------------------
(***************************************************************************)
(* A model of the hilog crate: a `log` backend that formats records into a *)
(* per-thread buffer and hands them to the OpenHarmony HiLog sink.         *)
(*                                                                         *)
(*   src/src/lib.rs            Builder, Logger, Log for Logger             *)
(*   src/src/ohfmt/mod.rs      HilogFormatter, Buffer                      *)
(*   src/src/ohfmt/builder.rs  format Builder, DefaultFormat               *)
(*   src/src/ohfmt/writer.rs   HilogWriter                                 *)
(*                                                                         *)
(* Strings are sequences of one-character strings.  The crates the code    *)
(* calls into (env_filter, log, hilog_sys, std) are modelled by what the   *)
(* called functions do; each such definition says so.                      *)
(***************************************************************************)
EXTENDS Integers, Sequences, FiniteSets, TLC

VARIABLES
    builder,    \* Builders -> the Builder struct (lib.rs 49-55)
    logger,     \* Builders -> None, or the Logger that builder's build() returned
    installed,  \* the log crate's process-wide logger slot: None or a Builders id
    max_level,  \* the log crate's global max level (log::set_max_level)
    outcome,    \* how the last Builder operation ended, with what held before it
    builds,     \* Builders -> how often build() was entered on it: 0, 1, or 2 for more
    tls,        \* Slots -> the thread_local FORMATTER of lib.rs 334-336
    stack,      \* Threads -> the Logger::log calls active on the thread, outermost first
    sink,       \* the OH_LOG_Print calls made so far, in order
    calls,      \* every Logger::log call begun so far (history)
    setters     \* the Builder setter calls made so far, counted up to MaxSetterCalls

vars == <<builder, logger, installed, max_level, outcome, builds, setters,
          tls, stack, sink, calls>>

builderVars == <<builder, logger, installed, max_level, outcome, builds>>
logVars == <<tls, stack, sink, calls>>

-----------------------------------------------------------------------------
(* Bounds of the model.                                                    *)

\* Logger::log calls begun in one behaviour (reentrant ones included).
MaxCalls == 3

\* Builder setter calls in one behaviour of SpecBuilder.
MaxSetterCalls == 2

\* Logger::log calls in one behaviour of SpecFormat.
MaxFormatCalls == 1

Builders == {1, 2}
Threads == {1, 2}

\* Option<T>: None is the empty sequence and Some(x) the one-element one.
None == <<>>
Some(x) == <<x>>
Unwrap(o) == o[1]

-----------------------------------------------------------------------------
(* Strings.                                                                *)

NUL == "NUL"
LF == "\n"

RECURSIVE Spaces(_)
Spaces(n) == IF n = 0 THEN <<>> ELSE <<" ">> \o Spaces(n - 1)

\* str::starts_with
StartsWith(s, p) == /\ Len(p) <= Len(s)
                    /\ SubSeq(s, 1, Len(p)) = p

HasNul(s) == \E i \in 1..Len(s) : s[i] = NUL

\* What a C callee reads from the pointer of a CString built with
\* CString::from_vec_unchecked (writer.rs 16): the bytes up to the first NUL.
RECURSIVE CStrBytes(_)
CStrBytes(s) == IF s = <<>> \/ Head(s) = NUL THEN <<>>
                ELSE <<Head(s)>> \o CStrBytes(Tail(s))

-----------------------------------------------------------------------------
(* Levels (log::Level, log::LevelFilter, hilog_sys::LogLevel).             *)

Levels == {"Error", "Warn", "Info", "Debug", "Trace"}
LevelFilters == {"Off"} \cup Levels

\* The discriminants of log::Level and log::LevelFilter, which `<=` and
\* max() compare.
LevelRank == [Off |-> 0, Error |-> 1, Warn |-> 2, Info |-> 3, Debug |-> 4, Trace |-> 5]

\* record.level().into() at lib.rs 342: hilog_sys's From<log::Level> for
\* LogLevel.  The host ladder has no Trace.
LevelInto(level) == CASE level = "Error" -> "LOG_ERROR"
                      [] level = "Warn"  -> "LOG_WARN"
                      [] level = "Info"  -> "LOG_INFO"
                      [] level = "Debug" -> "LOG_DEBUG"
                      [] level = "Trace" -> "LOG_DEBUG"

\* Display of log::Level as the default format pads it: {:<5}.
LevelName == [Error |-> <<"E", "R", "R", "O", "R">>,
              Warn  |-> <<"W", "A", "R", "N">>,
              Info  |-> <<"I", "N", "F", "O">>,
              Debug |-> <<"D", "E", "B", "U", "G">>,
              Trace |-> <<"T", "R", "A", "C", "E">>]

PadLeftAligned(s, width) == IF Len(s) >= width THEN s ELSE s \o Spaces(width - Len(s))

-----------------------------------------------------------------------------
(* The filter: env_filter::Builder and env_filter::Filter, which lib.rs    *)
(* 85-88, 104-107, 126-129, 279, 300-302 and 312-314 delegate to.          *)

DirectiveNameLen(d) == IF d.name = None THEN 0 ELSE Len(Unwrap(d.name))

\* env_filter::Builder::insert_directive: a directive whose name is already
\* present replaces that one in place, any other is pushed at the end.
InsertDirective(directives, d) ==
    IF \E i \in 1..Len(directives) : directives[i].name = d.name
    THEN [i \in 1..Len(directives) |->
            IF directives[i].name = d.name THEN d ELSE directives[i]]
    ELSE Append(directives, d)

\* Vec::sort_by on the name length (a stable sort), as insertion sort.
RECURSIVE InsertSorted(_, _)
InsertSorted(sorted, d) ==
    IF sorted = <<>> THEN <<d>>
    ELSE IF DirectiveNameLen(sorted[Len(sorted)]) <= DirectiveNameLen(d)
         THEN Append(sorted, d)
         ELSE Append(InsertSorted(SubSeq(sorted, 1, Len(sorted) - 1), d),
                     sorted[Len(sorted)])

RECURSIVE SortByNameLen(_)
SortByNameLen(directives) ==
    IF directives = <<>> THEN <<>>
    ELSE InsertSorted(SortByNameLen(SubSeq(directives, 1, Len(directives) - 1)),
                      directives[Len(directives)])

\* env_filter::Builder::build (called at lib.rs 279): with no directive it
\* yields the single default directive (None, Error); otherwise the
\* directives sorted by name length.
FilterBuild(directives) ==
    IF directives = <<>> THEN << [name |-> None, level |-> "Error"] >>
    ELSE SortByNameLen(directives)

RECURSIVE MaxRank(_)
MaxRank(directives) ==
    IF directives = <<>> THEN 0
    ELSE LET rest == MaxRank(Tail(directives))
             r == LevelRank[Head(directives).level]
         IN  IF r >= rest THEN r ELSE rest

LevelOfRank(r) == CHOOSE l \in LevelFilters : LevelRank[l] = r

\* A hint that reads the last directive only.
FilterMaxLevelLast(directives) ==
    IF directives = <<>> THEN "Off" ELSE directives[Len(directives)].level

\* env_filter::Filter::filter: directives.iter().map(|d| d.level).max()
\* .unwrap_or(Off).
FilterMaxLevel(directives) == LevelOfRank(MaxRank(directives))

DirectiveMatches(d, target) ==
    d.name = None \/ StartsWith(target, Unwrap(d.name))

\* A walk from the first directive on: the least specific match decides.
RECURSIVE FilterEnabledForward(_, _, _)
FilterEnabledForward(directives, level, target) ==
    IF directives = <<>> THEN FALSE
    ELSE IF DirectiveMatches(Head(directives), target)
         THEN LevelRank[level] <= LevelRank[Head(directives).level]
         ELSE FilterEnabledForward(Tail(directives), level, target)

\* env_filter's enabled(): walk the sorted directives from the last one
\* back; the first whose name is absent or a prefix of the target decides.
RECURSIVE FilterEnabled(_, _, _)
FilterEnabled(directives, level, target) ==
    IF directives = <<>> THEN FALSE
    ELSE LET d == directives[Len(directives)]
         IN  IF DirectiveMatches(d, target)
             THEN LevelRank[level] <= LevelRank[d.level]
             ELSE FilterEnabled(SubSeq(directives, 1, Len(directives) - 1), level, target)


-----------------------------------------------------------------------------
(* The format function: ohfmt::builder::Builder and DefaultFormat.         *)

\* impl Default for ohfmt::builder::Builder.  format_timestamp is left out:
\* write_timestamp writes nothing whatever it holds.
FormatBuilderDefault ==
    [format_module_path |-> FALSE,
     format_target      |-> TRUE,
     format_level       |-> TRUE,
     format_indent      |-> Some(4),
     custom_format      |-> None,
     format_suffix      |-> <<LF>>,
     built              |-> FALSE]

FormatCanBuild(f) == ~f.built

\* A build that returns the default format even when a closure is set.
FormatBuildDefaultOnly(f) ==
    [kind        |-> "default",
     module_path |-> f.format_module_path,
     target      |-> f.format_target,
     level       |-> f.format_level,
     indent      |-> f.format_indent,
     suffix      |-> f.format_suffix]
\* ohfmt::builder::Builder::build, the function it returns: the custom
\* closure when one is set, else the default format over the switches.
FormatBuild(f) ==
    IF f.custom_format # None
    THEN [kind |-> "custom", closure |-> Unwrap(f.custom_format)]
    ELSE [kind        |-> "default",
          module_path |-> f.format_module_path,
          target      |-> f.format_target,
          level       |-> f.format_level,
          indent      |-> f.format_indent,
          suffix      |-> f.format_suffix]

\* What build leaves behind: mem::replace(self, Builder { built: true,
\* ..Default::default() }).
FormatBuilderAfterBuild == [FormatBuilderDefault EXCEPT !.built = TRUE]

\* DefaultFormat::write_header_value; st is (buf, written_header_value).
WriteHeaderValue(st, value) ==
    IF ~st.written_header_value
    THEN [buf |-> st.buf \o <<"[">> \o value, written_header_value |-> TRUE]
    ELSE [buf |-> st.buf \o <<" ">> \o value, written_header_value |-> TRUE]

WriteLevel(fmt, st, record) ==
    IF ~fmt.level THEN st
    ELSE WriteHeaderValue(st, PadLeftAligned(LevelName[record.level], 5))

WriteModulePath(fmt, st, record) ==
    IF ~fmt.module_path THEN st
    ELSE IF record.module_path # None
         THEN WriteHeaderValue(st, Unwrap(record.module_path))
         ELSE st

WriteTarget(fmt, st, record) ==
    IF ~fmt.target THEN st
    ELSE IF record.target = <<>> THEN st
         ELSE WriteHeaderValue(st, record.target)

\* A header that is closed whether or not a value was written.
FinishHeaderAlways(st) == [st EXCEPT !.buf = st.buf \o <<"]", " ">>]
FinishHeader(st) ==
    IF st.written_header_value
    THEN [st EXCEPT !.buf = st.buf \o <<"]", " ">>]
    ELSE st

\* slice::split(|&x| x == b'\n'): the chunks between the newline bytes.
RECURSIVE SplitNewline(_)
SplitNewline(bytes) ==
    IF \A i \in 1..Len(bytes) : bytes[i] # LF THEN <<bytes>>
    ELSE LET i == CHOOSE k \in 1..Len(bytes) :
                      /\ bytes[k] = LF
                      /\ \A j \in 1..(k - 1) : bytes[j] # LF
         IN  <<SubSeq(bytes, 1, i - 1)>> \o SplitNewline(SubSeq(bytes, i + 1, Len(bytes)))

\* The loop of IndentWrapper::write over the chunks.
RECURSIVE IndentWriteChunks(_, _, _, _, _)
IndentWriteChunks(buf, chunks, first, suffix, indent_count) ==
    IF chunks = <<>> THEN buf
    ELSE LET sep == IF first THEN <<>> ELSE suffix \o Spaces(indent_count)
         IN  IndentWriteChunks(buf \o sep \o Head(chunks), Tail(chunks), FALSE,
                               suffix, indent_count)

\* A body written verbatim whatever the indent.
WriteArgsVerbatim(fmt, st, record) == [st EXCEPT !.buf = st.buf \o record.args]
\* DefaultFormat::write_args.
WriteArgs(fmt, st, record) ==
    IF fmt.indent = None
    THEN [st EXCEPT !.buf = st.buf \o record.args]
    ELSE [st EXCEPT !.buf = IndentWriteChunks(st.buf, SplitNewline(record.args), TRUE,
                                              fmt.suffix, Unwrap(fmt.indent))]

\* DefaultFormat::write: the bytes it writes for the record.
DefaultFormatWrite(fmt, record) ==
    LET s0 == [buf |-> <<>>, written_header_value |-> FALSE]
        s1 == WriteLevel(fmt, s0, record)
        s2 == WriteModulePath(fmt, s1, record)
        s3 == WriteTarget(fmt, s2, record)
        s4 == FinishHeader(s3)
        s5 == WriteArgs(fmt, s4, record)
    IN  s5.buf \o fmt.suffix

(* A caller-supplied format closure (Builder::format, lib.rs 160-166).  The  *)
(* one modelled here writes the record's arguments; for the arguments "f"   *)
(* it returns an io::Error after writing them, and for "o" it writes "<",   *)
(* logs InnerRecord through the same Logger, and then writes ">".           *)
ClosureFails(record) == record.args = <<"f">>
ClosureNests(record) == record.args = <<"o">>

InnerRecord == [level |-> "Info", target |-> <<"a">>, module_path |-> Some(<<"a">>),
                args |-> <<"i">>]

\* Whether running the format function on the record logs a record itself.
FormatNests(format, record) == format.kind = "custom" /\ ClosureNests(record)

\* The bytes the format function writes before its nested log call (all of
\* them when it makes none).
FormatFirstPart(format, record) ==
    IF format.kind = "default" THEN DefaultFormatWrite(format, record)
    ELSE IF ClosureNests(record) THEN <<"<">>
         ELSE record.args

\* The bytes it writes after the nested log call returned.
FormatSecondPart(format, record) == <<">">>

\* A format function whose error is taken for Ok.
FormatOkAlways(format, record) == TRUE
\* Its io::Result: only a closure fails; Buffer::write never does (mod.rs 88-91).
FormatOk(format, record) == format.kind = "default" \/ ~ClosureFails(record)

-----------------------------------------------------------------------------
(* Builder (lib.rs 48-285).                                                *)

BuilderNew ==
    [filter     |-> [directives |-> <<>>, built |-> FALSE],
     log_domain |-> 0,
     format     |-> FormatBuilderDefault,
     writer     |-> [built |-> FALSE],
     built      |-> FALSE]

\* The setters, as functions of the Builder.
BuilderSetDomain(bd, domain) == [bd EXCEPT !.log_domain = domain]

BuilderFilter(bd, module, level) ==
    [bd EXCEPT !.filter.directives =
                   InsertDirective(@, [name |-> module, level |-> level])]

BuilderFormat(bd, closure) == [bd EXCEPT !.format.custom_format = Some(closure)]

BuilderDefaultFormat(bd) == [bd EXCEPT !.format = FormatBuilderDefault]

\* The assertion turned around.
BuilderCanBuildInverted(bd) == bd.built

\* The assertion of Builder::build (lib.rs 274).
BuilderCanBuild(bd) == ~bd.built

\* Whether build() returns: its own assertion, env_filter's (the same
\* assertion on the filter builder's flag) and the format builder's.
BuildReturns(bd) == /\ BuilderCanBuild(bd)
                    /\ ~bd.filter.built
                    /\ FormatCanBuild(bd.format)

\* The Logger build() returns (lib.rs 277-282).
BuildLogger(bd) ==
    [domain |-> bd.log_domain,
     filter |-> FilterBuild(bd.filter.directives),
     format |-> FormatBuild(bd.format)]

\* A build that leaves the Builder as it found it.
BuilderAfterBuildFresh(bd) == bd
\* The Builder build() leaves behind.
BuilderAfterBuild(bd) ==
    [bd EXCEPT !.built = TRUE,
               !.filter = [directives |-> <<>>, built |-> TRUE],
               !.writer = [built |-> TRUE],
               !.format = FormatBuilderAfterBuild]

\* Logger::filter (lib.rs 300-302).
LoggerFilter(l) == FilterMaxLevel(l.filter)

\* A gate that lets every record through.
LoggerEnabledAlways(l, record) == TRUE

\* Log::enabled for Logger (lib.rs 312-314).
LoggerEnabled(l, record) == FilterEnabled(l.filter, record.level, record.target)

\* An installation that replaces the installed logger.
SetBoxedLoggerAlways(slot) == TRUE

\* log::set_boxed_logger (called at lib.rs 246) succeeds iff no logger is
\* installed yet.
SetBoxedLoggerOk(slot) == slot = None

-----------------------------------------------------------------------------
(* The Builder's operations as actions.  outcome records the operation,    *)
(* how it ended ("ok", "err" for a returned SetLoggerError, "abort" for a  *)
(* panic) and what held when it was entered.                               *)

Outcome(op, b, res) ==
    [op |-> op, b |-> b, res |-> res,
     pre_built      |-> builder[b].built,
     pre_builds     |-> builds[b],
     pre_directives |-> builder[b].filter.directives,
     pre_custom     |-> builder[b].format.custom_format,
     pre_installed  |-> installed]

\* A setter: it changes the Builder and returns &mut Self; none of them
\* looks at `built`.
Setter(op, b, bd) ==
    /\ builder' = [builder EXCEPT ![b] = bd]
    /\ outcome' = Outcome(op, b, "ok")
    /\ setters' = IF setters < MaxSetterCalls THEN setters + 1 ELSE setters
    /\ UNCHANGED <<logger, installed, max_level, builds, logVars>>

SetDomain(b, domain) == Setter("set_domain", b, BuilderSetDomain(builder[b], domain))

FilterModule(b, module, level) ==
    Setter("filter_module", b, BuilderFilter(builder[b], Some(module), level))

FilterLevel(b, level) ==
    Setter("filter_level", b, BuilderFilter(builder[b], None, level))

Filter(b, module, level) ==
    Setter("filter", b, BuilderFilter(builder[b], module, level))

Format(b, closure) == Setter("format", b, BuilderFormat(builder[b], closure))

DefaultFormat(b) == Setter("default_format", b, BuilderDefaultFormat(builder[b]))

FormatLevel(b, write) ==
    Setter("format_level", b, [builder[b] EXCEPT !.format.format_level = write])

FormatModulePath(b, write) ==
    Setter("format_module_path", b,
           [builder[b] EXCEPT !.format.format_module_path = write])

FormatTarget(b, write) ==
    Setter("format_target", b, [builder[b] EXCEPT !.format.format_target = write])

FormatIndent(b, indent) ==
    Setter("format_indent", b, [builder[b] EXCEPT !.format.format_indent = indent])

FormatSuffix(b, suffix) ==
    Setter("format_suffix", b, [builder[b] EXCEPT !.format.format_suffix = suffix])

BuildEntered(b) == builds' = [builds EXCEPT ![b] = IF @ = 0 THEN 1 ELSE 2]

\* Builder::build (lib.rs 273-283).
Build(b) ==
    /\ BuildEntered(b)
    /\ IF BuildReturns(builder[b])
       THEN /\ builder' = [builder EXCEPT ![b] = BuilderAfterBuild(builder[b])]
            /\ logger' = [logger EXCEPT ![b] = Some(BuildLogger(builder[b]))]
            /\ outcome' = Outcome("build", b, "ok")
       ELSE /\ outcome' = Outcome("build", b, "abort")
            /\ UNCHANGED <<builder, logger>>
    /\ UNCHANGED <<installed, max_level, setters, logVars>>

\* A max level that is set whether or not the logger was installed.
MaxLevelAlwaysSet(r_is_ok, max) == max

\* if r.is_ok() { log::set_max_level(max_level) } (lib.rs 248-250).
MaxLevelAfterInit(r_is_ok, max) == IF r_is_ok THEN max ELSE max_level

\* A try_init that marks the Builder as built only when the Logger was
\* installed.
TryInitConsumesOnSuccess(op, b, onError) ==
    /\ BuildEntered(b)
    /\ UNCHANGED <<setters, logVars>>
    /\ IF ~BuildReturns(builder[b])
       THEN /\ outcome' = Outcome(op, b, "abort")
            /\ UNCHANGED <<builder, logger, installed, max_level>>
       ELSE LET l == BuildLogger(builder[b])
                max == LoggerFilter(l)
            IN  /\ max_level' = MaxLevelAfterInit(SetBoxedLoggerOk(installed), max)
                /\ IF SetBoxedLoggerOk(installed)
                   THEN /\ builder' = [builder EXCEPT ![b] = BuilderAfterBuild(builder[b])]
                        /\ installed' = Some(b)
                        /\ logger' = [logger EXCEPT ![b] = Some(l)]
                        /\ outcome' = Outcome(op, b, "ok")
                   ELSE /\ outcome' = Outcome(op, b, onError)
                        /\ UNCHANGED <<builder, logger, installed>>

\* Builder::try_init (lib.rs 242-253), and Builder::init (lib.rs 264-267),
\* which panics on the error try_init returns.
TryInitAs(op, b, onError) ==
    /\ BuildEntered(b)
    /\ UNCHANGED <<setters, logVars>>
    /\ IF ~BuildReturns(builder[b])
       THEN /\ outcome' = Outcome(op, b, "abort")
            /\ UNCHANGED <<builder, logger, installed, max_level>>
       ELSE LET l == BuildLogger(builder[b])
                max == LoggerFilter(l)
            IN  /\ builder' = [builder EXCEPT ![b] = BuilderAfterBuild(builder[b])]
                /\ max_level' = MaxLevelAfterInit(SetBoxedLoggerOk(installed), max)
                /\ IF SetBoxedLoggerOk(installed)
                   THEN /\ installed' = Some(b)
                        /\ logger' = [logger EXCEPT ![b] = Some(l)]
                        /\ outcome' = Outcome(op, b, "ok")
                   ELSE /\ outcome' = Outcome(op, b, onError)
                        /\ UNCHANGED <<logger, installed>>

TryInit(b) == TryInitAs("try_init", b, "err")

Init(b) == TryInitAs("init", b, "abort")

NoOutcome ==
    [op |-> "new", b |-> 1, res |-> "ok", pre_built |-> FALSE, pre_builds |-> 0,
     pre_directives |-> <<>>, pre_custom |-> None, pre_installed |-> None]

\* Builder::new() for every Builder; nothing installed, nothing logged.
InitBuilders ==
    /\ builder = [b \in Builders |-> BuilderNew]
    /\ logger = [b \in Builders |-> None]
    /\ installed = None
    /\ max_level = "Off"
    /\ outcome = NoOutcome
    /\ builds = [b \in Builders |-> 0]
    /\ setters = 0

ModuleNames == {<<"a">>, <<"a", "b">>}
Targets == {<<"a">>, <<"a", "b">>, <<"b">>}

-----------------------------------------------------------------------------
(* SpecFilter: one Builder, every filter directive, build.                 *)

NextFilter ==
    \/ \E m \in ModuleNames, l \in LevelFilters :
          ~builder[1].built /\ FilterModule(1, m, l)
    \/ \E l \in LevelFilters :
          ~builder[1].built /\ FilterLevel(1, l)
    \/ \E m \in {Some(n) : n \in ModuleNames} \cup {None}, l \in LevelFilters :
          ~builder[1].built /\ Filter(1, m, l)
    \/ Build(1)

-----------------------------------------------------------------------------
(* Logger::log (lib.rs 316-375) on the Logger that Builder 1 built.        *)

TheLogger == Unwrap(logger[1])

\* One FORMATTER for all threads, as a plain static would be.
SlotShared(t) == 1

\* thread_local!: each thread has a FORMATTER of its own (lib.rs 334-336).
SlotOf(t) == t

\* const { RefCell::new(None) }, not borrowed, its destructor not yet run.
SlotNew == [alive |-> TRUE, borrowed |-> FALSE, value |-> None]

\* The slot as a record's log call finds it.
SlotState(slot) ==
    IF ~slot.alive THEN "Destroyed"
    ELSE IF slot.borrowed THEN "Borrowed"
    ELSE IF slot.value = None THEN "Empty" ELSE "Holding"

\* HilogFormatter::new (mod.rs 47-51) over HilogWriter::buffer (writer.rs 11-13).
FormatterNew == [buf |-> <<>>]

\* A clear that leaves the bytes in the buffer.
FormatterClearKeeps(formatter) == formatter

\* HilogFormatter::clear (mod.rs 56-58) over Buffer::clear (mod.rs 84-86).
FormatterClear(formatter) == [formatter EXCEPT !.buf = <<>>]

\* Write for HilogFormatter (mod.rs 61-64) over Buffer::write (mod.rs 88-91).
FormatterWrite(formatter, bytes) == [formatter EXCEPT !.buf = @ \o bytes]

\* LocalKey::try_with (lib.rs 348-349): an AccessError once the slot's
\* destructor has run.
TryWithOk(slot) == slot.alive

\* A borrow that is granted while another one is active.
TryBorrowMutAlways(slot) == TRUE

\* RefCell::try_borrow_mut (lib.rs 350).
TryBorrowMutOk(slot) == ~slot.borrowed

\* No second attempt once try_with failed.
NeedsFallbackNever(printed) == FALSE

\* if !printed (lib.rs 369).
NeedsFallback(printed) == ~printed

\* An acquisition that builds a new formatter for every record.
AcquirePathNoReuse(slot) ==
    IF ~slot.alive THEN "fallback"
    ELSE IF slot.borrowed THEN "reentrant" ELSE "new"
\* The branch of lib.rs 348-374 a record that passed the filter takes:
\* "slot" (354), "new" (357-360), "reentrant" (364), "fallback" (373).
AcquirePath(slot) ==
    LET printed == TryWithOk(slot)
    IN  IF printed
        THEN IF TryBorrowMutOk(slot)
             THEN IF slot.value # None THEN "slot" ELSE "new"
             ELSE "reentrant"
        ELSE IF NeedsFallback(printed) THEN "fallback" ELSE "none"

\* The record's target as tag.
TagOfTarget(record) == record.target

\* The module path cut at its first NUL byte as tag.
TagOfTruncated(record) ==
    IF record.module_path = None THEN <<>> ELSE CStrBytes(Unwrap(record.module_path))
\* lib.rs 339-340: module_path().and_then(|p| CString::new(p).ok())
\* .unwrap_or_default(); CString::new fails on an interior NUL.
TagOf(record) ==
    IF record.module_path = None THEN <<>>
    ELSE IF HasNul(Unwrap(record.module_path)) THEN <<>>
         ELSE Unwrap(record.module_path)

\* HilogWriter::print (writer.rs 15-19) calling hilog_log (lib.rs 35-46):
\* one OH_LOG_Print call.  call and written are history: the log call the
\* emission belongs to and the bytes that call's format run wrote.
Emission(l, record, formatter, call, written) ==
    [domain  |-> l.domain,
     tag     |-> TagOf(record),
     level   |-> LevelInto(record.level),
     msg     |-> CStrBytes(formatter.buf),
     call    |-> call,
     written |-> written]

\* A host log that puts the newest record first.
PrintedFirst(log, emission) == <<emission>> \o log

\* The host log after OH_LOG_Print (lib.rs 37-44): the record is added at
\* its end.
Printed(log, emission) == Append(log, emission)

Top(t) == stack[t][Len(stack[t])]

\* The formatter a frame writes to: the slot's on the "slot" path, else its own.
FrameFormatter(t, frame) ==
    IF frame.path = "slot" THEN Unwrap(tls[SlotOf(t)].value) ELSE frame.formatter

\* The frame and the slot after the frame's format function wrote bytes.
FrameAfterWrite(t, frame, bytes) ==
    IF frame.path = "slot" THEN frame
    ELSE [frame EXCEPT !.formatter = FormatterWrite(@, bytes)]

TlsAfterWrite(t, frame, bytes) ==
    IF frame.path = "slot"
    THEN [tls EXCEPT ![SlotOf(t)].value = Some(FormatterWrite(Unwrap(@), bytes))]
    ELSE tls

\* A formatter that is put into the slot whatever branch built it.
TlsAfterPrintInstalled(t, frame, cleared) ==
    [tls EXCEPT ![SlotOf(t)].value = Some(cleared),
                ![SlotOf(t)].borrowed = FALSE]

\* The slot when print has returned: on the "slot" path the cleared
\* formatter stays in it, on the "new" path it is installed (lib.rs 360),
\* and either way the borrow ends; the one-shot branches (364, 373) do not
\* touch the slot.
TlsAfterPrint(t, frame, cleared) ==
    IF frame.path \in {"slot", "new"}
    THEN [tls EXCEPT ![SlotOf(t)].value = Some(cleared),
                     ![SlotOf(t)].borrowed = FALSE]
    ELSE tls

ReplaceTop(t, frame) == [stack EXCEPT ![t] = [@ EXCEPT ![Len(@)] = frame]]

\* The log calls a record costs against MaxCalls: its own, and the one its
\* format closure makes.
CallCost(record) ==
    IF LoggerEnabled(TheLogger, record) /\ FormatNests(TheLogger.format, record)
    THEN 2 ELSE 1

\* A log that acquires the formatter and runs the format function before
\* it tests the filter, and only skips the print for a filtered record.
LogEnterFormatsFirst(t, record, base) ==
    LET slot == tls[SlotOf(t)]
        c == Len(calls) + 1
        info == [thread |-> t, record |-> record, slot |-> SlotState(slot),
                 depth |-> Len(base[t]) + 1, path |-> "none",
                 returned |-> TRUE, ok |-> FALSE]
        path == AcquirePath(slot)
        format == TheLogger.format
        bytes == FormatFirstPart(format, record)
        frame == [call |-> c, record |-> record, path |-> path,
                  formatter |-> IF path = "slot" THEN FormatterNew
                                ELSE FormatterWrite(FormatterNew, bytes),
                  pc |-> IF FormatNests(format, record) THEN "call" ELSE "print",
                  ok |-> FormatOk(format, record) /\ LoggerEnabled(TheLogger, record),
                  written |-> bytes]
    IN  IF path = "none"
        THEN /\ calls' = Append(calls, info)
             /\ stack' = base
             /\ UNCHANGED <<tls, sink>>
        ELSE /\ calls' = Append(calls, [info EXCEPT !.path = path, !.returned = FALSE])
             /\ stack' = [base EXCEPT ![t] = Append(@, frame)]
             /\ tls' = CASE path = "slot" ->
                              [tls EXCEPT ![SlotOf(t)].borrowed = TRUE,
                                          ![SlotOf(t)].value =
                                              Some(FormatterWrite(Unwrap(@), bytes))]
                         [] path = "new" -> [tls EXCEPT ![SlotOf(t)].borrowed = TRUE]
                         [] OTHER -> tls
             /\ UNCHANGED sink

\* Entry of Logger::log: the filter gate (317-319), the formatter
\* (348-374), and the format function (342) up to the closure's own log
\* call or, when it makes none, to its return.  A record that fails the
\* gate returns at once.
LogEnter(t, record, base) ==
    LET slot == tls[SlotOf(t)]
        c == Len(calls) + 1
        info == [thread |-> t, record |-> record, slot |-> SlotState(slot),
                 depth |-> Len(base[t]) + 1, path |-> "none",
                 returned |-> TRUE, ok |-> FALSE]
        path == AcquirePath(slot)
        format == TheLogger.format
        bytes == FormatFirstPart(format, record)
        frame == [call |-> c, record |-> record, path |-> path,
                  formatter |-> IF path = "slot" THEN FormatterNew
                                ELSE FormatterWrite(FormatterNew, bytes),
                  pc |-> IF FormatNests(format, record) THEN "call" ELSE "print",
                  ok |-> FormatOk(format, record),
                  written |-> bytes]
    IN  IF ~LoggerEnabled(TheLogger, record) \/ path = "none"
        THEN /\ calls' = Append(calls, info)
             /\ stack' = base
             /\ UNCHANGED <<tls, sink>>
        ELSE /\ calls' = Append(calls, [info EXCEPT !.path = path, !.returned = FALSE])
             /\ stack' = [base EXCEPT ![t] = Append(@, frame)]
             /\ tls' = CASE path = "slot" ->
                              [tls EXCEPT ![SlotOf(t)].borrowed = TRUE,
                                          ![SlotOf(t)].value =
                                              Some(FormatterWrite(Unwrap(@), bytes))]
                         [] path = "new" -> [tls EXCEPT ![SlotOf(t)].borrowed = TRUE]
                         [] OTHER -> tls
             /\ UNCHANGED sink

\* A log call from the program, outside any format function.
LogBegin(t, record) ==
    /\ stack[t] = <<>>
    /\ Len(calls) + CallCost(record) <= MaxCalls
    /\ LogEnter(t, record, stack)
    /\ UNCHANGED <<builderVars, setters>>

\* The format closure's log call: Logger::log entered again on the thread.
LogNested(t) ==
    /\ stack[t] # <<>>
    /\ Top(t).pc = "call"
    /\ LogEnter(t, InnerRecord, ReplaceTop(t, [Top(t) EXCEPT !.pc = "resume"]))
    /\ UNCHANGED <<builderVars, setters>>

\* The rest of the format closure, after its log call returned.
FormatResume(t) ==
    /\ stack[t] # <<>>
    /\ Top(t).pc = "resume"
    /\ LET frame == Top(t)
           bytes == FormatSecondPart(TheLogger.format, frame.record)
           next == [FrameAfterWrite(t, frame, bytes) EXCEPT
                       !.written = @ \o bytes,
                       !.pc = "print"]
       IN  /\ stack' = ReplaceTop(t, next)
           /\ tls' = TlsAfterWrite(t, frame, bytes)
    /\ UNCHANGED <<builderVars, setters, sink, calls>>

\* The rest of the print closure (lib.rs 342-345) and of the branch that
\* called it: the emission when the format function returned Ok, the
\* clear, the install of a new formatter (360), the end of the borrow.
LogFinish(t) ==
    /\ stack[t] # <<>>
    /\ Top(t).pc = "print"
    /\ LET frame == Top(t)
           formatter == FrameFormatter(t, frame)
           cleared == FormatterClear(formatter)
       IN  /\ sink' = IF frame.ok
                      THEN Printed(sink, Emission(TheLogger, frame.record, formatter,
                                                  frame.call, frame.written))
                      ELSE sink
           /\ tls' = TlsAfterPrint(t, frame, cleared)
           /\ stack' = [stack EXCEPT ![t] = SubSeq(@, 1, Len(@) - 1)]
           /\ calls' = [calls EXCEPT ![frame.call].returned = TRUE,
                                     ![frame.call].ok = frame.ok]
    /\ UNCHANGED <<builderVars, setters>>

\* The thread's TLS destructors run: the slot's value is dropped and
\* try_with fails from then on.  Code that logs afterwards (another TLS
\* destructor) still runs on the thread.
TlsDestroy(t) ==
    /\ stack[t] = <<>>
    /\ tls[SlotOf(t)].alive
    /\ tls' = [tls EXCEPT ![SlotOf(t)] = [alive |-> FALSE, borrowed |-> FALSE,
                                          value |-> None]]
    /\ UNCHANGED <<builderVars, setters, stack, sink, calls>>

-----------------------------------------------------------------------------
(* Spec: threads logging through one Logger.                               *)

Closure == "Closure"

\* The Builders the Logger is built from.
LogBuilders ==
    { BuilderFormat(BuilderNew, Closure),
      BuilderFormat(BuilderFilter(BuilderSetDomain(BuilderNew, 7), None, "Trace"),
                    Closure),
      BuilderFilter(BuilderFilter(BuilderSetDomain(BuilderNew, 7), None, "Error"),
                    Some(<<"a", "b">>), "Debug") }

\* The records logged.
Records ==
    { [level |-> "Error", target |-> <<"a">>, module_path |-> None, args |-> <<"o">>],
      [level |-> "Warn", target |-> <<"b">>, module_path |-> Some(<<"b", NUL, "b">>),
       args |-> <<"f">>],
      [level |-> "Debug", target |-> <<"a", "b">>, module_path |-> Some(<<"a", NUL, "b">>),
       args |-> <<"x">>],
      [level |-> "Trace", target |-> <<"a">>, module_path |-> Some(<<"a">>),
       args |-> <<"x", LF, "y">>] }

InitLog ==
    /\ \E bd \in LogBuilders :
          /\ builder = [b \in Builders |-> IF b = 1 THEN BuilderAfterBuild(bd) ELSE BuilderNew]
          /\ logger = [b \in Builders |-> IF b = 1 THEN Some(BuildLogger(bd)) ELSE None]
          /\ outcome = [op |-> "build", b |-> 1, res |-> "ok", pre_built |-> FALSE,
                        pre_builds |-> 0, pre_directives |-> bd.filter.directives,
                        pre_custom |-> bd.format.custom_format, pre_installed |-> None]
    /\ builds = [b \in Builders |-> IF b = 1 THEN 1 ELSE 0]
    /\ installed = None
    /\ max_level = "Off"
    /\ setters = 0
    /\ tls = [t \in Threads |-> SlotNew]
    /\ stack = [t \in Threads |-> <<>>]
    /\ sink = <<>>
    /\ calls = <<>>

Next ==
    \E t \in Threads :
       \/ \E record \in Records : LogBegin(t, record)
       \/ LogNested(t)
       \/ FormatResume(t)
       \/ LogFinish(t)
       \/ TlsDestroy(t)

Spec == InitLog /\ [][Next]_vars

InitFilter ==
    /\ InitBuilders
    /\ tls = [t \in Threads |-> SlotNew]
    /\ stack = [t \in Threads |-> <<>>]
    /\ sink = <<>>
    /\ calls = <<>>

SpecFilter == InitFilter /\ [][NextFilter]_vars

-----------------------------------------------------------------------------
(* SpecBuilder: Builder 1 with its setters, and Builder 2, the untouched   *)
(* Builder::new() of another part of the program; build, try_init and init *)
(* on both.                                                                *)

NextBuilder ==
    \/ setters < MaxSetterCalls /\ SetDomain(1, 7)
    \/ \E l \in {"Warn", "Trace"} : setters < MaxSetterCalls /\ FilterLevel(1, l)
    \/ setters < MaxSetterCalls /\ FilterModule(1, <<"a">>, "Info")
    \/ setters < MaxSetterCalls /\ Filter(1, Some(<<"a">>), "Off")
    \/ setters < MaxSetterCalls /\ Format(1, Closure)
    \/ setters < MaxSetterCalls /\ DefaultFormat(1)
    \/ setters < MaxSetterCalls /\ FormatLevel(1, FALSE)
    \/ setters < MaxSetterCalls /\ FormatModulePath(1, TRUE)
    \/ setters < MaxSetterCalls /\ FormatTarget(1, FALSE)
    \/ setters < MaxSetterCalls /\ FormatIndent(1, None)
    \/ setters < MaxSetterCalls /\ FormatSuffix(1, <<>>)
    \/ \E b \in Builders : Build(b)
    \/ \E b \in Builders : TryInit(b)
    \/ \E b \in Builders : Init(b)

SpecBuilder == InitFilter /\ [][NextBuilder]_vars

-----------------------------------------------------------------------------
(* SpecFormat: Builder 1 with its format setters, build, and records       *)
(* logged on one thread through the Logger built.                          *)

FormatIndents == {None, Some(2)}
FormatSuffixes == {<<LF>>, <<"$">>}

\* The records logged: with and without module path, target and body, a
\* body of three lines and one that ends in a newline.
FormatRecords ==
    [level : {"Error", "Info"},
     target : {<<>>, <<"m">>},
     module_path : {None, Some(<<"m">>)},
     args : {<<>>, <<"a", LF, "b", LF, "c">>, <<"a", LF>>}]

NextFormat ==
    \/ ~builder[1].built /\ FilterLevel(1, "Trace")
    \/ \E write \in BOOLEAN : ~builder[1].built /\ FormatLevel(1, write)
    \/ \E write \in BOOLEAN : ~builder[1].built /\ FormatModulePath(1, write)
    \/ \E write \in BOOLEAN : ~builder[1].built /\ FormatTarget(1, write)
    \/ \E indent \in FormatIndents : ~builder[1].built /\ FormatIndent(1, indent)
    \/ \E suffix \in FormatSuffixes : ~builder[1].built /\ FormatSuffix(1, suffix)
    \/ ~builder[1].built /\ Format(1, Closure)
    \/ ~builder[1].built /\ DefaultFormat(1)
    \/ Build(1)
    \/ \E record \in FormatRecords :
          /\ logger[1] # None
          /\ Len(calls) < MaxFormatCalls
          /\ LogBegin(1, record)
    \/ logger[1] # None /\ LogFinish(1)

SpecFormat == InitFilter /\ [][NextFormat]_vars

-----------------------------------------------------------------------------
(* What the properties below speak of.                                     *)

IsPrefix(p, s) == /\ Len(p) <= Len(s)
                  /\ \A k \in 1..Len(p) : p[k] = s[k]

\* The directives that match a target: the default one, and those whose
\* target is a prefix of it.
Matching(directives, target) ==
    { i \in 1..Len(directives) :
         \/ directives[i].name = None
         \/ IsPrefix(Unwrap(directives[i].name), target) }

NameLength(d) == IF d.name = None THEN 0 ELSE Len(Unwrap(d.name))

\* Among them, those with the longest target.
MostSpecific(directives, target) ==
    { i \in Matching(directives, target) :
         \A j \in Matching(directives, target) :
            NameLength(directives[j]) <= NameLength(directives[i]) }

\* A (target, level) passes the filter iff the most specific matching
\* directive allows the level.
Passes(directives, target, level) ==
    \E i \in MostSpecific(directives, target) :
       LevelRank[level] <= LevelRank[directives[i].level]

CallPasses(c) == Passes(TheLogger.filter, calls[c].record.target, calls[c].record.level)

\* The format function returns Ok for the record of call c.
CallFormatsOk(c) == FormatOk(TheLogger.format, calls[c].record)

CallIds == 1..Len(calls)

EmissionsOf(c) == { i \in 1..Len(sink) : sink[i].call = c }

HostLevel(level) == CASE level = "Error" -> "LOG_ERROR"
                      [] level = "Warn"  -> "LOG_WARN"
                      [] level = "Info"  -> "LOG_INFO"
                      [] level = "Debug" -> "LOG_DEBUG"
                      [] level = "Trace" -> "LOG_DEBUG"

PathOrEmpty(record) ==
    IF record.module_path = None THEN <<>> ELSE Unwrap(record.module_path)

SlotBufferEmpty(t) ==
    tls[SlotOf(t)].value # None => Unwrap(tls[SlotOf(t)].value).buf = <<>>

\* A log call of thread t returns in this step.
ReturnsIn(t) ==
    \E c \in 1..Len(calls') :
       /\ calls'[c].thread = t
       /\ calls'[c].returned
       /\ (c > Len(calls) \/ ~calls[c].returned)

\* Every frame's formatter holds exactly the bytes its format run wrote.
FramesHoldOwnBytes ==
    \A t \in Threads : \A i \in 1..Len(stack[t]) :
       FrameFormatter(t, stack[t][i]).buf = stack[t][i].written

-----------------------------------------------------------------------------
(* C1: a record whose (target, level) does not pass the Logger's filter    *)
(* makes log return with no sink emission, whatever state the thread's     *)
(* formatter slot is in.                                                   *)
C1_FilteredRecordEmitsNothing ==
    \A c \in CallIds :
       ~CallPasses(c) => /\ EmissionsOf(c) = {}
                         /\ calls[c].returned

\* Filtered records were logged with the slot borrowed and with it torn down.
C1_Witness ==
    /\ \E c \in CallIds : ~CallPasses(c) /\ calls[c].slot = "Borrowed"
    /\ \E c \in CallIds : ~CallPasses(c) /\ calls[c].slot = "Destroyed"

(* C2 as stated: every record that passes the filter is emitted exactly    *)
(* once, with the configured domain, the module path as tag (empty when    *)
(* absent) and the mapped level.                                           *)
C2_Original ==
    \A c \in CallIds :
       (calls[c].returned /\ CallPasses(c)) =>
          /\ Cardinality(EmissionsOf(c)) = 1
          /\ \A i \in EmissionsOf(c) :
                /\ sink[i].domain = builder[1].log_domain
                /\ sink[i].tag = PathOrEmpty(calls[c].record)
                /\ sink[i].level = HostLevel(calls[c].record.level)

(* C2, amended: every record that passes the filter and whose format       *)
(* function returns Ok is emitted exactly once, with the configured        *)
(* domain, the mapped level, and as tag the module path, or the empty tag  *)
(* when the path is absent or holds a NUL byte.                            *)
C2_PassingRecordEmittedOnce ==
    \A c \in CallIds :
       (calls[c].returned /\ CallPasses(c) /\ CallFormatsOk(c)) =>
          /\ Cardinality(EmissionsOf(c)) = 1
          /\ \A i \in EmissionsOf(c) :
                /\ sink[i].domain = builder[1].log_domain
                /\ sink[i].tag = IF HasNul(PathOrEmpty(calls[c].record)) THEN <<>>
                                 ELSE PathOrEmpty(calls[c].record)
                /\ sink[i].level = HostLevel(calls[c].record.level)

\* A Trace record with a module path was emitted under a domain other than 0.
C2_Witness ==
    \E i \in 1..Len(sink) :
       /\ calls[sink[i].call].record.level = "Trace"
       /\ sink[i].level = "LOG_DEBUG"
       /\ sink[i].tag = <<"a">>
       /\ sink[i].domain = 7

(* C3 as stated: after any log call returns, the thread-local formatter's  *)
(* buffer, if the slot holds one, has length zero.                         *)
C3_Original == [][\A t \in Threads : ReturnsIn(t) => SlotBufferEmpty(t)']_vars

(* C3, amended: whenever no log call is active on a thread (so after any   *)
(* non-reentrant log call returned, filtered or emitted, format succeeded  *)
(* or failed), the slot's buffer, if the slot holds one, has length zero;  *)
(* and every formatter holds only the bytes of the record being formatted. *)
C3_BufferEmptyBetweenRecords ==
    /\ \A t \in Threads : stack[t] = <<>> => SlotBufferEmpty(t)
    /\ FramesHoldOwnBytes

\* A thread's slot holds a formatter after a record whose format failed
\* and one that was emitted, and no call is active on the thread.
C3_Witness ==
    \E t \in Threads :
       /\ stack[t] = <<>>
       /\ tls[SlotOf(t)].value # None
       /\ \E c \in CallIds :
             calls[c].thread = t /\ calls[c].path = "new" /\ ~calls[c].ok
       /\ \E c \in CallIds :
             calls[c].thread = t /\ calls[c].path = "slot" /\ calls[c].ok

(* C4 as stated: under any interleaving each thread uses its own slot and  *)
(* buffer, every emitted message holds only the bytes written for that     *)
(* record, and the emissions are as many as the filter-passing log calls.  *)
C4_Original ==
    /\ \A c \in CallIds : calls[c].depth = 1 => calls[c].slot # "Borrowed"
    /\ \A i \in 1..Len(sink) : sink[i].msg = sink[i].written
    /\ Len(sink) = Cardinality({ c \in CallIds : calls[c].returned /\ CallPasses(c) })

(* C4, amended: under any interleaving each thread uses its own slot and   *)
(* buffer, every emitted message holds only the bytes written for that     *)
(* record, and the emissions are as many as the filter-passing log calls   *)
(* whose format function returned Ok.                                      *)
C4_ThreadsDoNotShareBuffers ==
    /\ \A c \in CallIds : calls[c].depth = 1 => calls[c].slot # "Borrowed"
    /\ \A i \in 1..Len(sink) : sink[i].msg = sink[i].written
    /\ FramesHoldOwnBytes
    /\ Len(sink) = Cardinality({ c \in CallIds :
                                    calls[c].returned /\ CallPasses(c) /\ CallFormatsOk(c) })

\* Two threads' calls overlapped: the call begun later emitted first.
C4_Witness ==
    \E i, j \in 1..Len(sink) :
       /\ i < j
       /\ sink[i].call > sink[j].call
       /\ calls[sink[i].call].thread # calls[sink[j].call].thread
       /\ calls[sink[i].call].path = "slot"

(* C5: a log call made inside a format closure that runs under an outer    *)
(* log call on the same thread goes on to completion, formats into a       *)
(* one-shot formatter, and the outer and the inner emission each consist   *)
(* of exactly the bytes their own format run wrote.                        *)
C5_ReentrantLogIsSafe ==
    /\ \A c \in CallIds :
          (calls[c].depth > 1 /\ CallPasses(c)) => calls[c].path \in {"reentrant", "fallback"}
    /\ \A t \in Threads :
          stack[t] # <<>> => ENABLED (LogNested(t) \/ FormatResume(t) \/ LogFinish(t))
    /\ \A t \in Threads : \A i \in 1..Len(stack[t]) :
          FrameFormatter(t, stack[t][i]).buf = stack[t][i].written
    /\ \A i \in 1..Len(sink) :
          /\ sink[i].msg = sink[i].written
          /\ FormatNests(TheLogger.format, calls[sink[i].call].record)
                => sink[i].msg = <<"<", ">">>

\* The inner record was emitted, then the outer one, which used the slot.
C5_Witness ==
    \E i, j \in 1..Len(sink) :
       /\ i < j
       /\ sink[i].call = sink[j].call + 1
       /\ calls[sink[i].call].depth = 2
       /\ calls[sink[j].call].path = "slot"
       /\ sink[i].msg = <<"i">>
       /\ sink[j].msg = <<"<", ">">>

(* C6 as stated: once the thread's TLS destructors have run, a log call    *)
(* for a filter-passing record still emits exactly one record, through a   *)
(* one-shot formatter.                                                     *)
C6_Original ==
    \A c \in CallIds :
       (calls[c].returned /\ calls[c].slot = "Destroyed" /\ CallPasses(c)) =>
          /\ Cardinality(EmissionsOf(c)) = 1
          /\ calls[c].path = "fallback"

(* C6, amended: once the thread's TLS destructors have run, a log call for *)
(* a filter-passing record whose format function returns Ok still emits    *)
(* exactly one record, through a one-shot formatter.                       *)
C6_LogAfterTlsTeardownEmitsOnce ==
    \A c \in CallIds :
       (calls[c].returned /\ calls[c].slot = "Destroyed" /\ CallPasses(c) /\ CallFormatsOk(c)) =>
          /\ Cardinality(EmissionsOf(c)) = 1
          /\ calls[c].path = "fallback"

\* A record was emitted by a thread whose slot had held a formatter before
\* its TLS destructors ran.
C6_Witness ==
    \E c \in CallIds :
       /\ calls[c].slot = "Destroyed"
       /\ EmissionsOf(c) # {}
       /\ \E d \in 1..(c - 1) : calls[d].thread = calls[c].thread /\ calls[d].path = "new"

-----------------------------------------------------------------------------
(* What the Builder and filter properties speak of.                        *)

\* The operations that run Builder::build: build itself, and try_init and
\* init, which call it first.
BuildOps == {"build", "try_init", "init"}

DirectiveSet(directives) == { directives[i] : i \in 1..Len(directives) }

\* The highest level among the directives.
HighestLevel(directives) ==
    CHOOSE l \in LevelFilters :
       /\ \E d \in DirectiveSet(directives) : d.level = l
       /\ \A d \in DirectiveSet(directives) : LevelRank[d.level] <= LevelRank[l]

MetadataOf(target, level) == [target |-> target, level |-> level]

(* C7: on a Builder, the first build() succeeds and returns a Logger, and  *)
(* every later build() on the same Builder aborts, whatever setters were   *)
(* called before or in between; the same holds of the build() that         *)
(* try_init and init start with.                                           *)
C7_BuildOnceThenAbort ==
    /\ \A b \in Builders : builder[b].built <=> builds[b] > 0
    /\ outcome.op \in BuildOps =>
          /\ outcome.pre_builds > 0 => outcome.res = "abort"
          /\ (outcome.pre_builds = 0 /\ outcome.op = "build") =>
                outcome.res = "ok" /\ logger[outcome.b] # None
          /\ (outcome.pre_builds = 0 /\ outcome.op = "try_init") =>
                outcome.res \in {"ok", "err"}
          /\ (outcome.pre_builds = 0 /\ outcome.op = "init") =>
                (outcome.res = "abort" <=> outcome.pre_installed # None)

\* A second build() aborted on a Builder whose first build() returned a
\* Logger and whose format was reset by default_format in between.
C7_Witness ==
    /\ outcome.op = "build"
    /\ outcome.res = "abort"
    /\ outcome.pre_builds > 0
    /\ logger[outcome.b] # None
    /\ ~builder[outcome.b].format.built

C9_Original ==
    (outcome.op = "build" /\ outcome.res = "ok") =>
       LoggerFilter(Unwrap(logger[outcome.b])) =
          IF outcome.pre_directives = <<>> THEN "Off"
          ELSE HighestLevel(outcome.pre_directives)

(* C9, amended: the max-level hint of a built Logger is the maximum level  *)
(* over the directives the Builder holds at build() (a filter call for a   *)
(* target already configured replaces the earlier directive), and Error    *)
(* when none was configured.                                               *)
C9_MaxLevelHint ==
    (outcome.op = "build" /\ outcome.res = "ok") =>
       LoggerFilter(Unwrap(logger[outcome.b])) =
          IF outcome.pre_directives = <<>> THEN "Error"
          ELSE HighestLevel(outcome.pre_directives)

\* A Logger was built from three directives of which the one with the
\* highest level has neither the shortest nor the longest target.
C9_Witness ==
    /\ outcome.op = "build"
    /\ outcome.res = "ok"
    /\ DirectiveSet(outcome.pre_directives) =
          { [name |-> None, level |-> "Warn"],
            [name |-> Some(<<"a">>), level |-> "Debug"],
            [name |-> Some(<<"a", "b">>), level |-> "Off"] }
    /\ LoggerFilter(Unwrap(logger[outcome.b])) = "Debug"

(* C10: enabled(target, level) of a built Logger is decided by the most    *)
(* specific matching directive: among the directives whose target is a     *)
(* prefix of the record's target (the default directive matching every     *)
(* target) the one with the longest target wins, and the record is enabled *)
(* iff that directive's level is >= the record's level.  The Logger's      *)
(* directives are those configured on the Builder.                         *)
C10_MostSpecificDirectiveDecides ==
    /\ logger[1] # None =>
          \A target \in Targets, level \in Levels :
             LoggerEnabled(Unwrap(logger[1]), MetadataOf(target, level))
                <=> Passes(Unwrap(logger[1]).filter, target, level)
    /\ (outcome.op = "build" /\ outcome.res = "ok" /\ outcome.pre_directives # <<>>) =>
          DirectiveSet(Unwrap(logger[1]).filter) = DirectiveSet(outcome.pre_directives)

\* With `a b`=Warn, `a`=Trace and the default Error: Info from `a b` is
\* disabled, Warn from `a b` is enabled, Trace from `a` is enabled and Warn
\* from `b` is disabled.
C10_Witness ==
    /\ logger[1] # None
    /\ DirectiveSet(Unwrap(logger[1]).filter) =
          { [name |-> Some(<<"a", "b">>), level |-> "Warn"],
            [name |-> Some(<<"a">>), level |-> "Trace"],
            [name |-> None, level |-> "Error"] }
    /\ ~LoggerEnabled(Unwrap(logger[1]), MetadataOf(<<"a", "b">>, "Info"))
    /\ LoggerEnabled(Unwrap(logger[1]), MetadataOf(<<"a", "b">>, "Warn"))
    /\ LoggerEnabled(Unwrap(logger[1]), MetadataOf(<<"a">>, "Trace"))
    /\ ~LoggerEnabled(Unwrap(logger[1]), MetadataOf(<<"b">>, "Warn"))

-----------------------------------------------------------------------------
\* The format function of the Logger is the closure and returns an error
\* for the record of call c, after writing the record's arguments.
CallFormatFails(c) ==
    TheLogger.format.kind = "custom" /\ ClosureFails(calls[c].record)

(* C11: when the format function returns an error for a filter-passing     *)
(* record, log returns normally to the caller, the record is dropped (no   *)
(* sink emission for it), and the formatter's buffer is cleared, so that   *)
(* no byte of the failed record appears in any later emission.             *)
C11_FormatErrorDropsRecord ==
    /\ \A c \in CallIds :
          (CallPasses(c) /\ CallFormatFails(c)) => EmissionsOf(c) = {}
    /\ \A t \in Threads :
          (stack[t] # <<>> /\ ~Top(t).ok) =>
             /\ Top(t).pc = "print"
             /\ FrameFormatter(t, Top(t)).buf = Top(t).record.args
             /\ ENABLED LogFinish(t)
    /\ \A t \in Threads : stack[t] = <<>> => SlotBufferEmpty(t)
    /\ \A i \in 1..Len(sink) :
          /\ sink[i].msg = sink[i].written
          /\ TheLogger.format.kind = "custom" =>
                \A k \in 1..Len(sink[i].msg) : sink[i].msg[k] # "f"

\* A record whose format failed after writing into the slot's formatter was
\* dropped, and a later record of the same thread was emitted from that
\* same formatter.
C11_Witness ==
    \E c, d \in CallIds :
       /\ c < d
       /\ calls[c].thread = calls[d].thread
       /\ CallPasses(c) /\ CallFormatFails(c)
       /\ calls[c].path \in {"new", "slot"}
       /\ calls[c].returned /\ EmissionsOf(c) = {}
       /\ calls[d].path = "slot"
       /\ \E i \in EmissionsOf(d) : sink[i].msg = calls[d].record.args

\* The module path of call c's record holds a NUL byte.
CallPathHasNul(c) ==
    /\ calls[c].record.module_path # None
    /\ HasNul(Unwrap(calls[c].record.module_path))

\* The bytes the Logger's format function writes for a record that logs
\* nothing itself.
FormattedMessage(record) == FormatFirstPart(TheLogger.format, record)

-----------------------------------------------------------------------------
(* What the format properties speak of.                                    *)

\* The level names left-aligned in a field of width 5.
PaddedLevel == [Error |-> <<"E", "R", "R", "O", "R">>,
                Info  |-> <<"I", "N", "F", "O", " ">>]

\* The header values the switches of fmt select for the record, in order.
HeaderValues(fmt, record) ==
    (IF fmt.level THEN <<PaddedLevel[record.level]>> ELSE <<>>)
    \o (IF fmt.module_path /\ record.module_path # None
        THEN <<Unwrap(record.module_path)>> ELSE <<>>)
    \o (IF fmt.target /\ record.target # <<>> THEN <<record.target>> ELSE <<>>)

RECURSIVE JoinWithSpace(_)
JoinWithSpace(values) ==
    IF Len(values) = 1 THEN values[1]
    ELSE values[1] \o <<" ">> \o JoinWithSpace(Tail(values))

\* `[`, the values with one space between them, `] `; nothing without values.
ExpectedHeader(fmt, record) ==
    IF HeaderValues(fmt, record) = <<>> THEN <<>>
    ELSE <<"[">> \o JoinWithSpace(HeaderValues(fmt, record)) \o <<"]", " ">>

IsSuffix(p, s) == /\ Len(p) <= Len(s)
                  /\ \A k \in 1..Len(p) : p[k] = s[Len(s) - Len(p) + k]

\* The emissions of a Logger whose format function is the default format.
DefaultEmissions ==
    IF logger[1] # None /\ TheLogger.format.kind = "default"
    THEN 1..Len(sink) ELSE {}

RecordOf(i) == calls[sink[i].call].record

(* C13: the default format writes the header values in the order level     *)
(* (left-aligned, padded to width 5), module path (if enabled and present),*)
(* target (if enabled and non-empty), the first after `[` and each later   *)
(* one after a single space, closes with `] ` iff a header value was       *)
(* written (no brackets at all otherwise), then writes the body and the    *)
(* suffix; with an empty body the output is the header and the suffix.     *)
C13_DefaultFormatHeader ==
    \A i \in DefaultEmissions :
       LET fmt == TheLogger.format
           header == ExpectedHeader(fmt, RecordOf(i))
           msg == sink[i].msg
       IN  /\ IsPrefix(header, msg)
           /\ IsSuffix(fmt.suffix, msg)
           /\ Len(msg) >= Len(header) + Len(fmt.suffix)
           /\ RecordOf(i).args = <<>> => msg = header \o fmt.suffix
           /\ fmt.indent = None => msg = header \o RecordOf(i).args \o fmt.suffix
           /\ HeaderValues(fmt, RecordOf(i)) = <<>> =>
                 \A k \in 1..Len(msg) : msg[k] \notin {"[", "]"}

\* All header switches on, level Info, module path m, target m, an empty
\* body and the suffix `$`: the message is `[INFO  m m] $`.
C13_Witness ==
    \E i \in DefaultEmissions :
       /\ TheLogger.format.level /\ TheLogger.format.module_path /\ TheLogger.format.target
       /\ TheLogger.format.suffix = <<"$">>
       /\ RecordOf(i) = [level |-> "Info", target |-> <<"m">>,
                         module_path |-> Some(<<"m">>), args |-> <<>>]
       /\ sink[i].msg = <<"[", "I", "N", "F", "O", " ", " ", "m", " ", "m", "]", " ", "$">>

\* The body with every newline byte replaced by the suffix and n spaces.
RECURSIVE IndentedBody(_, _, _)
IndentedBody(body, suffix, n) ==
    IF body = <<>> THEN <<>>
    ELSE (IF Head(body) = LF THEN suffix \o [k \in 1..n |-> " "] ELSE <<Head(body)>>)
         \o IndentedBody(Tail(body), suffix, n)

\* Indent 4, suffix newline, no header: the body `a` with a terminal newline
\* is emitted as `a`, the suffix, four spaces and the suffix.
TrailingChunkKept ==
    \A i \in DefaultEmissions :
       (/\ TheLogger.format.indent = Some(4)
        /\ TheLogger.format.suffix = <<LF>>
        /\ HeaderValues(TheLogger.format, RecordOf(i)) = <<>>
        /\ RecordOf(i).args = <<"a", LF>>)
       => sink[i].msg = <<"a", LF, " ", " ", " ", " ", LF>>

(* C14: with format_indent = Some(n) the default format splits the body at *)
(* newline bytes and between every two adjacent chunks writes the suffix   *)
(* followed by n spaces (a trailing empty chunk from a terminal newline    *)
(* still gets its suffix and indent); with format_indent = None the body   *)
(* is written verbatim.                                                    *)
C14_DefaultFormatIndent ==
    /\ TrailingChunkKept
    /\ \A i \in DefaultEmissions :
          LET fmt == TheLogger.format
              header == ExpectedHeader(fmt, RecordOf(i))
              body == RecordOf(i).args
          IN  sink[i].msg =
                 header
                 \o (IF fmt.indent = None THEN body
                     ELSE IndentedBody(body, fmt.suffix, Unwrap(fmt.indent)))
                 \o fmt.suffix

\* Indent 2, suffix `$`, no header: the body of three lines `a`, `b`, `c`
\* is emitted as `a$  b$  c$`.
C14_Witness ==
    \E i \in DefaultEmissions :
       /\ TheLogger.format.indent = Some(2)
       /\ TheLogger.format.suffix = <<"$">>
       /\ HeaderValues(TheLogger.format, RecordOf(i)) = <<>>
       /\ RecordOf(i).args = <<"a", LF, "b", LF, "c">>
       /\ sink[i].msg = <<"a", "$", " ", " ", "b", "$", " ", " ", "c", "$">>

(* C15: when a custom format closure is set on the Builder at build time,  *)
(* the emitted message is exactly what the closure wrote: no bracketed     *)
(* header, indentation or suffix is added, whatever the format_* switches  *)
(* were set to before or after the format() call; the Logger still clears  *)
(* the buffer after the emission.                                          *)
C15_CustomFormatWritesMessage ==
    /\ (outcome.op = "build" /\ outcome.res = "ok") =>
          (outcome.pre_custom # None <=> Unwrap(logger[1]).format.kind = "custom")
    /\ (logger[1] # None /\ TheLogger.format.kind = "custom") =>
          /\ \A i \in 1..Len(sink) : sink[i].msg = RecordOf(i).args
          /\ \A c \in CallIds :
                (calls[c].returned /\ CallPasses(c)) => Cardinality(EmissionsOf(c)) = 1
          /\ stack[1] = <<>> => SlotBufferEmpty(1)

\* After format() and at least one other setter call, a record with level,
\* module path, target and a body of three lines was emitted as its body
\* alone, and the slot's formatter is empty again.
C15_Witness ==
    /\ logger[1] # None
    /\ TheLogger.format.kind = "custom"
    /\ outcome.pre_custom # None
    /\ setters = MaxSetterCalls
    /\ stack[1] = <<>>
    /\ tls[SlotOf(1)].value = Some(FormatterNew)
    /\ \E i \in 1..Len(sink) :
          /\ RecordOf(i) = [level |-> "Info", target |-> <<"m">>,
                            module_path |-> Some(<<"m">>),
                            args |-> <<"a", LF, "b", LF, "c">>]
          /\ sink[i].msg = <<"a", LF, "b", LF, "c">>

-----------------------------------------------------------------------------
\* Call d was made from inside the format function of call c.
Encloses(c, d) ==
    /\ c < d
    /\ calls[c].thread = calls[d].thread
    /\ calls[c].depth < calls[d].depth
    /\ \A e \in (c + 1)..(d - 1) :
          calls[e].thread = calls[c].thread => calls[e].depth > calls[c].depth

(* C16 as stated: within a thread, records are emitted in the order in     *)
(* which their log calls begin, also when the later call is made from      *)
(* inside the earlier call's format closure.                               *)
C16_Original ==
    \A i, j \in 1..Len(sink) :
       (/\ calls[sink[i].call].thread = calls[sink[j].call].thread
        /\ sink[i].call < sink[j].call)
       => i < j

(* C16, amended: within a thread, records are emitted in the order in      *)
(* which their log calls return: if A begins before B on the same thread   *)
(* and both are emitted, A's emission precedes B's, unless B is made from  *)
(* inside A's format closure, in which case B's emission precedes A's.     *)
C16_EmissionsInReturnOrder ==
    \A i, j \in 1..Len(sink) :
       (/\ calls[sink[i].call].thread = calls[sink[j].call].thread
        /\ sink[i].call < sink[j].call)
       => IF Encloses(sink[i].call, sink[j].call) THEN j < i ELSE i < j

\* One thread emitted three records: the one logged by a format closure,
\* then the one whose format closure logged it, then one logged afterwards.
C16_Witness ==
    \E i, j, k \in 1..Len(sink) :
       /\ i < j /\ j < k
       /\ calls[sink[i].call].thread = calls[sink[j].call].thread
       /\ calls[sink[j].call].thread = calls[sink[k].call].thread
       /\ Encloses(sink[j].call, sink[i].call)
       /\ sink[j].call < sink[k].call
       /\ ~Encloses(sink[j].call, sink[k].call)

-----------------------------------------------------------------------------
(* C17 as stated: the Builder is Fresh until build() and Consumed from     *)
(* then on, and every operation invoked on a Consumed Builder, setters     *)
(* included, aborts.                                                       *)
C17_Original ==
    /\ \A b \in Builders : builder[b].built <=> builds[b] > 0
    /\ outcome.pre_built => outcome.res = "abort"

(* C17, amended: the Builder is Fresh until build() (called directly or by *)
(* try_init or init) and Consumed from then on; build, try_init and init   *)
(* invoked on a Consumed Builder abort, while the setters (set_domain,     *)
(* filter, format, default_format, format_level and the others) return     *)
(* normally and leave the Builder Consumed.                                *)
C17_ConsumedBuilderAbortsBuild ==
    /\ \A b \in Builders : builder[b].built <=> builds[b] > 0
    /\ outcome.pre_built <=> outcome.pre_builds > 0
    /\ outcome.pre_built =>
          /\ builder[outcome.b].built
          /\ outcome.res = (IF outcome.op \in BuildOps THEN "abort" ELSE "ok")

\* default_format was called on a Consumed Builder: it returned, reset the
\* format (the format builder's own flag included), and the Builder is
\* still Consumed.
C17_Witness ==
    /\ outcome.op = "default_format"
    /\ outcome.pre_built
    /\ outcome.res = "ok"
    /\ builder[outcome.b].built
    /\ ~builder[outcome.b].format.built

-----------------------------------------------------------------------------
\* The calls of thread t that used the slot's formatter and have returned.
SlotCallsDone(t) ==
    { c \in CallIds : /\ calls[c].thread = t
                      /\ calls[c].path \in {"new", "slot"}
                      /\ calls[c].returned }

(* C18: the per-thread slot goes Empty -> Holding on the first             *)
(* non-reentrant filter-passing log call on the thread while TLS is        *)
(* available, then Holding <-> Borrowed around each later such call: once  *)
(* Holding it never returns to Empty before thread shutdown, every later   *)
(* non-reentrant call that uses a formatter reuses the installed one (no   *)
(* new one is created), and every call that reaches the slot while it is   *)
(* Borrowed takes the one-shot formatter.                                  *)
C18_SlotLifecycle ==
    /\ \A c \in CallIds :
          /\ calls[c].depth = 1 => calls[c].slot # "Borrowed"
          /\ calls[c].depth > 1 => calls[c].slot \in {"Borrowed", "Destroyed"}
          /\ CallPasses(c) =>
                calls[c].path = CASE calls[c].slot = "Empty"     -> "new"
                                  [] calls[c].slot = "Holding"   -> "slot"
                                  [] calls[c].slot = "Borrowed"  -> "reentrant"
                                  [] calls[c].slot = "Destroyed" -> "fallback"
          /\ calls[c].path = "new" =>
                \A d \in 1..(c - 1) :
                   calls[d].thread = calls[c].thread => calls[d].path \notin {"new", "slot"}
    /\ \A t \in Threads :
          /\ (SlotCallsDone(t) # {} /\ tls[SlotOf(t)].alive) =>
                tls[SlotOf(t)].value # None
          /\ tls[SlotOf(t)].borrowed <=>
                (stack[t] # <<>> /\ stack[t][1].path \in {"new", "slot"})
          /\ (tls[SlotOf(t)].value = None /\ ~tls[SlotOf(t)].borrowed /\ tls[SlotOf(t)].alive)
                => SlotCallsDone(t) = {}

\* On one thread the first call installed a formatter, the second reused it
\* and the call its format closure made found the slot borrowed and used a
\* one-shot formatter; the slot is Holding again.
C18_Witness ==
    \E t \in Threads : \E c, d, e \in CallIds :
       /\ c < d /\ d < e
       /\ calls[c].thread = t /\ calls[d].thread = t /\ calls[e].thread = t
       /\ calls[c].slot = "Empty" /\ calls[c].path = "new"
       /\ calls[d].slot = "Holding" /\ calls[d].path = "slot"
       /\ calls[e].slot = "Borrowed" /\ calls[e].path = "reentrant"
       /\ calls[e].returned /\ calls[d].returned
       /\ SlotState(tls[SlotOf(t)]) = "Holding"

-----------------------------------------------------------------------------
OneShotPaths == {"reentrant", "fallback"}

\* This step is taken by a log call of thread t that uses a one-shot
\* formatter: its entry, the rest of its format function, or its return.
OneShotStep(t) ==
    \/ /\ Len(calls') > Len(calls)
       /\ calls'[Len(calls')].thread = t
       /\ calls'[Len(calls')].path \in OneShotPaths
    \/ /\ Len(calls') = Len(calls)
       /\ stack[t] # <<>>
       /\ stack'[t] # stack[t]
       /\ Top(t).path \in OneShotPaths

\* While a one-shot call is active the slot is as the call found it: torn
\* down, or borrowed by the outermost call, whose bytes it holds.
SlotAsFound(t) ==
    /\ ~tls[SlotOf(t)].alive =>
          tls[SlotOf(t)] = [alive |-> FALSE, borrowed |-> FALSE, value |-> None]
    /\ (stack[t] # <<>> /\ Top(t).path = "reentrant") =>
          /\ tls[SlotOf(t)].borrowed
          /\ stack[t][1].path \in {"new", "slot"}
          /\ stack[t][1].path = "new" => tls[SlotOf(t)].value = None
          /\ stack[t][1].path = "slot" =>
                tls[SlotOf(t)].value = Some([buf |-> stack[t][1].written])

(* C19: a reentrant log call (slot borrowed) and a log call after TLS      *)
(* teardown leave the thread-local slot unchanged: no step of such a call  *)
(* changes the slot, its one-shot formatter is never installed, and the    *)
(* slot's content (empty, or the held formatter and its buffer bytes) is   *)
(* the same after the call as before it.                                   *)
C19_OneShotLeavesSlotUnchanged ==
    /\ [](\A t \in Threads : SlotAsFound(t))
    /\ [][\A t \in Threads :
             OneShotStep(t) => tls'[SlotOf(t)] = tls[SlotOf(t)]]_vars

\* A reentrant call has returned after emitting its record while the slot
\* still holds the outer record's bytes, borrowed; and on the other thread
\* a record was emitted after TLS teardown and the slot is still torn down.
C19_Witness ==
    \E t, u \in Threads : \E c, d \in CallIds :
       /\ calls[c].thread = t
       /\ calls[c].path = "reentrant"
       /\ calls[c].returned /\ EmissionsOf(c) # {}
       /\ Len(stack[t]) = 1
       /\ tls[SlotOf(t)] = [alive |-> TRUE, borrowed |-> TRUE,
                            value |-> Some([buf |-> <<"<">>])]
       /\ calls[d].thread = u
       /\ calls[d].path = "fallback"
       /\ calls[d].returned /\ EmissionsOf(d) # {}
       /\ tls[SlotOf(u)] = [alive |-> FALSE, borrowed |-> FALSE, value |-> None]

-----------------------------------------------------------------------------
\* The max-level hint of the Logger that is installed; Off, the log crate's
\* initial max level, while none is.
InstalledHint ==
    IF installed = None THEN "Off"
    ELSE FilterMaxLevel(Unwrap(logger[Unwrap(installed)]).filter)

(* C20: try_init sets the global max level to the built Logger's max-level *)
(* hint exactly when the installation succeeds; when it fails the global   *)
(* max level is left unchanged, so that after any sequence of try_init     *)
(* calls the global max level equals the hint of the Logger that is        *)
(* actually installed.                                                     *)
C20_MaxLevelFollowsInstalledLogger ==
    /\ [](max_level = InstalledHint)
    /\ [][/\ installed' # installed =>
                /\ installed = None
                /\ outcome'.op \in {"try_init", "init"}
                /\ outcome'.res = "ok"
                /\ installed' = Some(outcome'.b)
                /\ max_level' = FilterMaxLevel(Unwrap(logger'[outcome'.b]).filter)
          /\ installed' = installed => max_level' = max_level
          /\ (outcome'.op = "try_init" /\ outcome'.res = "ok" /\ outcome' # outcome) =>
                installed' # installed]_vars

\* Builder 1's Logger, with the hint Trace, is installed; try_init on
\* Builder 2, whose Logger's hint is Error, returned the error and the
\* global max level is still Trace.
C20_Witness ==
    /\ installed = Some(1)
    /\ max_level = "Trace"
    /\ outcome.op = "try_init"
    /\ outcome.b = 2
    /\ outcome.res = "err"
    /\ outcome.pre_directives = <<>>

-----------------------------------------------------------------------------
\* Every log call thread t has made was for a record the filter rejects.
OnlyFilteredCalls(t) ==
    \A c \in CallIds : calls[c].thread = t => ~CallPasses(c)

\* This step is the log call of a record that the filter rejects.
FilteredCallStep ==
    /\ Len(calls') = Len(calls) + 1
    /\ ~Passes(TheLogger.filter, calls'[Len(calls')].record.target,
               calls'[Len(calls')].record.level)

(* C21: the filter is evaluated before any formatting work: for a record   *)
(* that fails the filter the format function is never invoked (no format   *)
(* run exists for the call and no formatter is acquired for it) and the    *)
(* log call leaves every thread-local slot as it was, neither borrowed nor *)
(* created; a thread that has only logged filtered-out records has an      *)
(* Empty slot for as long as its thread-local storage lives.               *)
C21_FilterBeforeFormat ==
    /\ [](/\ \A c \in CallIds :
                ~CallPasses(c) =>
                   /\ calls[c].path = "none"
                   /\ \A t \in Threads : \A i \in 1..Len(stack[t]) :
                         stack[t][i].call # c
          /\ \A t \in Threads :
                OnlyFilteredCalls(t) =>
                   /\ stack[t] = <<>>
                   /\ tls[SlotOf(t)].alive => SlotState(tls[SlotOf(t)]) = "Empty"
                   /\ tls[SlotOf(t)].value = None)
    /\ [][FilteredCallStep =>
             /\ tls' = tls
             /\ sink' = sink
             /\ \A t \in Threads : Len(stack'[t]) = Len(stack[t])]_vars

\* Thread t has logged two records that the filter rejects, one of them a
\* record the format function would have formatted without error, and its
\* slot is still Empty, while the other thread's slot holds a formatter.
C21_Witness ==
    \E t, u \in Threads : \E c, d \in CallIds :
       /\ c < d
       /\ calls[c].thread = t /\ calls[d].thread = t
       /\ OnlyFilteredCalls(t)
       /\ CallFormatsOk(c)
       /\ SlotState(tls[SlotOf(t)]) = "Empty"
       /\ SlotState(tls[SlotOf(u)]) = "Holding"

-----------------------------------------------------------------------------
\* This step is a build(), try_init() or init() on Builder b.
BuildOpStep(b) ==
    /\ outcome' # outcome
    /\ outcome'.b = b
    /\ outcome'.op \in BuildOps

=============================================================================
